---- MODULE Spec2Model ----
(***************************************************************************)
(* A model of .github/scripts/project_manager.py: the ProjectManager that  *)
(* reconciles project_requirements.txt against index.html, styles.css and  *)
(* script.js with the help of a text-generation oracle.                    *)
(*                                                                         *)
(* Text is a sequence of characters.  A character is a one-character       *)
(* string; the fixed literals of the program that are never taken apart    *)
(* ("### ", "## Implemented Features", a JSON member) are one token each.  *)
(***************************************************************************)
EXTENDS Integers, Sequences, FiniteSets, TLC

VARIABLES
    pc,            \* position of the running operation
    reqSource,     \* project_requirements.txt: NoSource, or its lines
    requirements,  \* the list read_requirements() returned
    idx,           \* index of the requirement run() is processing
    files,         \* the project tree: file name -> content, Absent or Unreadable
    backups,       \* <file>.backup: file name -> content or Absent
    readme,        \* README.md: content or Absent
    fixlog,        \* logs/fixes/*.fix.log: the records log_fix appended
    oracleCalls,   \* calls of chatgpt_generate so far, per purpose
    impl,          \* the implementation json.loads returned (implement_requirement)
    k,             \* index into the file list of implement_requirement's check loop
    sweepT,        \* index of the suffix the final sweep of run() is on
    swept,         \* files the final sweep has already yielded
    raised,        \* the exception run()'s handler caught, or "none"
    checked,       \* history: requirements handed to check_implementation, in order
    cycles,        \* history: one record per check_and_fix_file call
    last,          \* the last direct call of a method and what it returned
    runNo,         \* number of the run() in progress, counted from 1
    merges,        \* history: the _update_file calls of implement_requirement
    journal        \* history: each check_implementation result and each answer
                   \* chatgpt_generate was given for a synthesis, of this run

vars == <<pc, reqSource, requirements, idx, files, backups, readme, fixlog,
          oracleCalls, impl, k, sweepT, swept, raised, checked, cycles, last,
          runNo, merges, journal>>

(***************************************************************************)
(* Bounds of the model.                                                    *)
(***************************************************************************)
MaxFragLen == 2     \* longest fragment handed to a direct _update_file call
MaxLines == 2       \* lines of project_requirements.txt
MaxRuns == 2        \* consecutive invocations of run() on one project tree

(***************************************************************************)
(* Values.                                                                 *)
(***************************************************************************)
Absent == <<"<absent>">>            \* a path that does not exist
Unreadable == <<"<unreadable>">>    \* a path open() fails on
None == <<"<None>">>                \* Python's None
TransportError == <<"<error>">>     \* the API call raised instead of answering
NoSource == <<Absent>>              \* a requirements file that does not exist

Whitespace == {" ", "\n"}

RECURSIVE lstrip(_)
lstrip(s) == IF s # <<>> /\ Head(s) \in Whitespace THEN lstrip(Tail(s)) ELSE s

RECURSIVE rstrip(_)
rstrip(s) ==
    IF s # <<>> /\ s[Len(s)] \in Whitespace
    THEN rstrip(SubSeq(s, 1, Len(s) - 1))
    ELSE s

\* str.strip()
strip(s) == rstrip(lstrip(s))

\* s.startswith(p)
StartsWith(s, p) == Len(p) <= Len(s) /\ SubSeq(s, 1, Len(p)) = p

\* a faulty variant of Contains: a prefix test in place of the substring test
ContainsAtStart(p, s) == StartsWith(s, p)

\* p in s
Contains(p, s) ==
    \E i \in 1..(Len(s) - Len(p) + 1) : SubSeq(s, i, i + Len(p) - 1) = p

\* truth value of a str-or-None
Truthy(s) == s # None /\ s # <<>>

\* all sequences over S of length at most n
RECURSIVE SeqsUpTo(_, _)
SeqsUpTo(S, n) ==
    IF n = 0 THEN {<<>>}
    ELSE LET shorter == SeqsUpTo(S, n - 1)
         IN shorter \cup {Append(s, c) : s \in shorter, c \in S}

(***************************************************************************)
(* The project tree.                                                       *)
(***************************************************************************)
ArtifactFiles == <<"index.html", "styles.css", "script.js">>
TreeFiles == {"index.html", "styles.css", "script.js", "lib/extra.js"}

\* Path.suffix.lower()
Suffix(f) ==
    CASE f = "index.html" -> ".html"
      [] f = "styles.css" -> ".css"
      [] f = "notes.txt" -> ".txt"
      [] OTHER -> ".js"

Exists(tree, f) == tree[f] # Absent

(***************************************************************************)
(* ArtifactStore: _update_file.                                            *)
(***************************************************************************)
\* what open(path).read() gives for a path that exists; a path touch() just
\* created holds the empty string
ContentOf(tree, f) == IF tree[f] = Absent THEN <<>> ELSE tree[f]

\* _update_file(filename, content): the tree it leaves behind.  A failure of
\* stat() or open() is caught and logged at line 148 and changes nothing.
_update_file(tree, filename, content) ==
    IF tree[filename] = Unreadable THEN tree
    ELSE LET existing_content == ContentOf(tree, filename)
         IN IF ~Contains(strip(content), existing_content)
            THEN [tree EXCEPT ![filename] = existing_content \o <<"\n">> \o content]
            ELSE [tree EXCEPT ![filename] = existing_content]

(***************************************************************************)
(* MergeSpec: _update_file called directly, twice in a row on one of the   *)
(* three artifacts, with any two fragments, from any small initial content.*)
(***************************************************************************)
Chars == {"a", "b", " ", "\n"}
Fragments == SeqsUpTo(Chars, MaxFragLen)
InitialContents == {Absent, <<>>, <<"a">>, <<"\n", "a", " ">>, <<"b", "\n", "a">>}

NoCalls == [judge |-> 0, synth |-> 0, fix |-> 0]
EmptyTree == [f \in TreeFiles |-> Absent]

\* the state of a ProjectManager whose run() has not been called
RunIdle ==
    /\ reqSource = NoSource
    /\ requirements = <<>>
    /\ idx = 0
    /\ readme = Absent
    /\ impl = None
    /\ k = 0
    /\ sweepT = 0
    /\ swept = {}
    /\ raised = "none"
    /\ checked = <<>>
    /\ cycles = <<>>
    /\ runNo = 0
    /\ merges = {}
    /\ journal = <<>>

runVars == <<reqSource, requirements, idx, readme, impl, k, sweepT, swept,
             raised, checked, cycles, runNo, merges, journal>>

MergeInit ==
    /\ pc = "merge"
    /\ \E f \in TreeFiles, c \in InitialContents :
           files = [EmptyTree EXCEPT ![f] = c]
    /\ backups = EmptyTree
    /\ fixlog = <<>>
    /\ oracleCalls = NoCalls
    /\ last = [op |-> "none", n |-> 0]
    /\ RunIdle

\* merge(kind, X)
MergeFirst ==
    /\ pc = "merge"
    /\ last.n = 0
    /\ \E i \in 1..Len(ArtifactFiles), X \in Fragments :
           LET f == ArtifactFiles[i]
           IN /\ files' = _update_file(files, f, X)
              /\ last' = [op |-> "_update_file", n |-> 1, file |-> f,
                          content |-> X, before |-> files[f]]
    /\ UNCHANGED <<pc, backups, fixlog, oracleCalls>>
    /\ UNCHANGED runVars

\* merge(kind, Y), right after merge(kind, X)
MergeAgain ==
    /\ pc = "merge"
    /\ last.n = 1
    /\ \E Y \in Fragments :
           /\ files' = _update_file(files, last.file, Y)
           /\ last' = [op |-> "_update_file", n |-> 2, file |-> last.file,
                       content |-> Y, before |-> files[last.file],
                       first |-> last.content]
    /\ UNCHANGED <<pc, backups, fixlog, oracleCalls>>
    /\ UNCHANGED runVars

MergeNext == MergeFirst \/ MergeAgain

MergeSpec == MergeInit /\ [][MergeNext]_vars

Merged == last.op = "_update_file"
MergedTwice == Merged /\ last.n = 2

\* C2: merge is idempotent: for every artifact kind, every initial content (an
\* absent artifact included) and every fragment X, after merge(kind, X) has
\* been called twice in a row the artifact holds exactly what it held after the
\* first call.
C2_MergeIdempotent ==
    (MergedTwice /\ last.content = last.first) => files[last.file] = last.before

\* C2's case: the same fragment, one that trimming changes, merged twice; the
\* first call appended it.
C2_Witness ==
    /\ MergedTwice
    /\ last.content = last.first
    /\ strip(last.content) # last.content
    /\ Contains(<<"\n">> \o last.content, last.before)

\* C3: substring guard.  (a) merge(kind, Y) right after merge(kind, X), for a Y
\* that is a substring of the post-merge content, leaves the content unchanged;
\* (b) every merge that changes the content found trimmed Y not to be a
\* substring of the existing content, and appended one newline and Y; (c) the
\* content a merge finds is still there, unaltered, when it returns.
C3_SubstringGuard ==
    Merged =>
        LET old == IF last.before = Absent THEN <<>> ELSE last.before
            now == files[last.file]
        IN /\ (last.n = 2 /\ Contains(last.content, old)) => now = old
           /\ now # old =>
                  /\ ~Contains(strip(last.content), old)
                  /\ now = old \o <<"\n">> \o last.content
           /\ StartsWith(now, old)

\* C3's case: the second merge found its fragment Y, which is not X and which
\* trimming does not change, inside what the first merge had appended, and left
\* the artifact as it was.
C3_Witness ==
    /\ MergedTwice
    /\ last.content # last.first
    /\ last.content # <<>>
    /\ Contains(last.content, last.before)
    /\ ~Contains(last.content, last.first)
    /\ files[last.file] = last.before

(***************************************************************************)
(* GenerationOracle: chatgpt_generate.  What the API call does is the      *)
(* environment's choice: it raises (TransportError) or it answers a text.  *)
(***************************************************************************)
\* a faulty variant of chatgpt_generate: a failed call answers an empty JSON
\* object
chatgpt_generate_default(raw) ==
    IF raw = TransportError THEN <<"{", "}">> ELSE strip(raw)

\* chatgpt_generate(prompt), given what the API call did
chatgpt_generate(raw) == IF raw = TransportError THEN None ELSE strip(raw)

(***************************************************************************)
(* SyntaxValidator: check_html_errors, check_css_errors, check_js_errors.  *)
(* The parsers (html.parser, cssutils, esprima) are libraries; the model   *)
(* has them reject exactly the texts that hold the character "x".          *)
(***************************************************************************)
ParseError == <<"parse error">>
TypeError == <<"TypeError">>

\* whether the parser of a kind raises on a text
ParserRejects(content) == Contains(<<"x">>, content)

\* check_html_errors / check_css_errors / check_js_errors: None or str(e).
\* Handed None (no text at all), the parser raises a TypeError.
check_errors(content) ==
    IF content = None THEN TypeError
    ELSE IF ParserRejects(content) THEN ParseError
    ELSE None

Languages == {"HTML", "CSS", "JavaScript"}

(***************************************************************************)
(* RepairEngine: fix_code_error.                                           *)
(***************************************************************************)
\* a faulty variant of fix_code_error: it asks the oracle again when the fix
\* is rejected
fix_code_error_retry(code, error, language, raw) ==
    LET fixed_code == IF Truthy(chatgpt_generate(raw))
                      THEN strip(chatgpt_generate(raw)) ELSE None
        failed == language \notin Languages \/ check_errors(fixed_code) # None
    IN [value |-> IF failed THEN None ELSE fixed_code,
        calls |-> IF failed THEN 2 ELSE 1,
        raises |-> FALSE]

\* fix_code_error(code, error, language), given what the API call does:
\* the value returned, the calls of chatgpt_generate made, and whether an
\* exception leaves the method (the handler at line 237 lets none out)
fix_code_error(code, error, language, raw) ==
    LET response == chatgpt_generate(raw)
        fixed_code == IF Truthy(response) THEN strip(response) ELSE None
        new_error == check_errors(fixed_code)
    IN [value |-> IF language \notin Languages THEN None
                  ELSE IF new_error # None THEN None
                  ELSE fixed_code,
        calls |-> 1,
        raises |-> FALSE]

(***************************************************************************)
(* FixSpec: fix_code_error called directly, on any code of any language    *)
(* and with any answer of the oracle.                                      *)
(***************************************************************************)
MaxFixCalls == 2    \* direct fix_code_error calls in one behaviour

Codes == {<<"x">>, <<"a", "x">>, <<"x", "\n", "a">>}
FixLanguages == Languages \cup {"Python"}
FixReplies == {TransportError, <<>>, <<" ">>, <<"a">>, <<" ", "a", "\n">>,
               <<"x">>, <<"a", "x">>}

FixInit ==
    /\ pc = "fix"
    /\ files = EmptyTree
    /\ backups = EmptyTree
    /\ fixlog = <<>>
    /\ oracleCalls = NoCalls
    /\ last = [op |-> "none", n |-> 0]
    /\ RunIdle

FixCall ==
    /\ pc = "fix"
    /\ last.n < MaxFixCalls
    /\ \E code \in Codes, language \in FixLanguages, raw \in FixReplies :
           LET r == fix_code_error(code, check_errors(code), language, raw)
           IN /\ oracleCalls' = [oracleCalls EXCEPT !.fix = @ + r.calls]
              /\ last' = [op |-> "fix_code_error", n |-> last.n + 1,
                          code |-> code, language |-> language, raw |-> raw,
                          value |-> r.value, calls |-> r.calls,
                          raises |-> r.raises]
    /\ UNCHANGED <<pc, files, backups, fixlog>>
    /\ UNCHANGED runVars

FixNext == FixCall

FixSpec == FixInit /\ [][FixNext]_vars

\* C8: repair bound: one invocation of fix_code_error issues at most one
\* oracle call, whatever the oracle returns: after n invocations at most n
\* calls have been made, and none of them made more than one.
C8_RepairBound ==
    /\ oracleCalls.fix <= last.n
    /\ last.op = "fix_code_error" => last.calls <= 1

\* C8's case: the oracle answered a text that still fails validation, the
\* invocation returned None, and it had asked once.
C8_Witness ==
    /\ last.op = "fix_code_error"
    /\ last.language \in Languages
    /\ last.raw # TransportError
    /\ Truthy(strip(last.raw))
    /\ last.value = None
    /\ oracleCalls.fix = last.n
    /\ last.n = 2

(***************************************************************************)
(* read_requirements.                                                      *)
(***************************************************************************)
RECURSIVE ReadLines(_, _, _)
ReadLines(lines, current_requirement, acc) ==
    LET flushed == IF current_requirement # <<>>
                   THEN Append(acc, strip(current_requirement))
                   ELSE acc
    IN IF lines = <<>> THEN flushed
       ELSE LET line == strip(Head(lines))
            IN IF line = <<>>
               THEN ReadLines(Tail(lines), current_requirement, acc)
               ELSE IF StartsWith(line, <<"-">>)
               THEN ReadLines(Tail(lines),
                              current_requirement \o <<"\n">> \o line, acc)
               ELSE ReadLines(Tail(lines), line, flushed)

\* read_requirements(): the list of requirements of a file that exists
read_requirements(lines) == ReadLines(lines, <<>>, <<>>)

(***************************************************************************)
(* ImplementationOracle: check_implementation.                             *)
(***************************************************************************)
UpperChar(c) ==
    CASE c = "y" -> "Y"
      [] c = "e" -> "E"
      [] c = "s" -> "S"
      [] OTHER -> c

\* a faulty variant of Upper: the text is compared as it is
Upper_asis(s) == s

\* str.upper()
Upper(s) == [i \in 1..Len(s) |-> UpperChar(s[i])]

\* the three artifacts' content, each prefixed by a newline (lines 99-103)
RECURSIVE Corpus(_, _)
Corpus(tree, i) ==
    IF i > Len(ArtifactFiles) THEN <<>>
    ELSE (IF Exists(tree, ArtifactFiles[i])
          THEN <<"\n">> \o tree[ArtifactFiles[i]]
          ELSE <<>>) \o Corpus(tree, i + 1)

\* a faulty variant of check_implementation: the corpus is tested for
\* emptiness without being trimmed first
check_implementation_untrimmed(tree, requirement, raw) ==
    IF \E i \in 1..Len(ArtifactFiles) : tree[ArtifactFiles[i]] = Unreadable
    THEN [value |-> FALSE, calls |-> 0, raises |-> FALSE]
    ELSE IF Corpus(tree, 1) = <<>>
    THEN [value |-> FALSE, calls |-> 0, raises |-> FALSE]
    ELSE [value |-> chatgpt_generate(raw) # None
                      /\ Upper(chatgpt_generate(raw)) = <<"Y", "E", "S">>,
          calls |-> 1, raises |-> FALSE]

\* check_implementation(requirement), given what the API call does: the value
\* returned, the calls of chatgpt_generate made, and whether an exception
\* leaves the method.  Every exception (open() failing, None.upper()) is
\* caught at line 121 and gives False.
check_implementation(tree, requirement, raw) ==
    IF \E i \in 1..Len(ArtifactFiles) : tree[ArtifactFiles[i]] = Unreadable
    THEN [value |-> FALSE, calls |-> 0, raises |-> FALSE]
    ELSE IF strip(Corpus(tree, 1)) = <<>>
    THEN [value |-> FALSE, calls |-> 0, raises |-> FALSE]
    ELSE LET response == chatgpt_generate(raw)
         IN [value |-> response # None /\ Upper(response) = <<"Y", "E", "S">>,
             calls |-> 1, raises |-> FALSE]

(***************************************************************************)
(* JudgeSpec: check_implementation called directly, for any requirement,   *)
(* on any small tree and with any answer of the oracle.                    *)
(***************************************************************************)
MaxJudgeCalls == 2    \* direct check_implementation calls in one behaviour

JudgeContents == {Absent, Unreadable, <<>>, <<" ", "\n">>, <<"a">>}
JudgeTrees ==
    {[f \in TreeFiles |->
          IF f = "index.html" THEN h
          ELSE IF f = "styles.css" THEN c
          ELSE IF f = "script.js" THEN j
          ELSE <<"a">>] :
       h \in JudgeContents, c \in JudgeContents, j \in JudgeContents}
JudgeRequirements == {<<"A">>, <<"A", "\n", "-", "c">>}
JudgeAnswers == {TransportError, <<>>, <<"Y", "E", "S">>, <<"y", "e", "s">>,
                 <<"Y", "e", "s">>, <<" ", "y", "E", "S", "\n">>, <<"N", "O">>,
                 <<"Y", "E", "S", "!">>, <<"Y", "E", "S", " ", "Y", "E", "S">>,
                 <<"Y", "E">>}

JudgeInit ==
    /\ pc = "judge"
    /\ files \in JudgeTrees
    /\ backups = EmptyTree
    /\ fixlog = <<>>
    /\ oracleCalls = NoCalls
    /\ last = [op |-> "none", n |-> 0]
    /\ RunIdle

JudgeCall ==
    /\ pc = "judge"
    /\ last.n < MaxJudgeCalls
    /\ \E requirement \in JudgeRequirements, raw \in JudgeAnswers :
           LET r == check_implementation(files, requirement, raw)
           IN /\ oracleCalls' = [oracleCalls EXCEPT !.judge = @ + r.calls]
              /\ last' = [op |-> "check_implementation", n |-> last.n + 1,
                          requirement |-> requirement, raw |-> raw,
                          value |-> r.value, calls |-> r.calls,
                          raises |-> r.raises, callsBefore |-> oracleCalls.judge]
    /\ UNCHANGED <<pc, files, backups, fixlog>>
    /\ UNCHANGED runVars

JudgeNext == JudgeCall

JudgeSpec == JudgeInit /\ [][JudgeNext]_vars

Judged == last.op = "check_implementation"

\* no artifact is one that open() fails on
Readable == \A i \in 1..Len(ArtifactFiles) : files[ArtifactFiles[i]] # Unreadable

\* the three artifacts hold no character that is not whitespace
BlankCorpus ==
    \A i \in 1..Len(ArtifactFiles) :
        \A j \in 1..Len(ContentOf(files, ArtifactFiles[i])) :
            ContentOf(files, ArtifactFiles[i])[j] \in Whitespace

\* the texts that are "YES" up to the case of their letters
YesTexts == {<<y, e, s2>> : y \in {"Y", "y"}, e \in {"E", "e"}, s2 \in {"S", "s"}}

\* C12: satisfaction short-circuit: for every requirement, when the three
\* artifacts' content put together is empty or only whitespace (no artifact
\* existing included), check_implementation returns False and makes no oracle
\* call.
C12_BlankCorpusShortCircuit ==
    (Judged /\ Readable /\ BlankCorpus) =>
        /\ last.value = FALSE
        /\ last.calls = 0
        /\ oracleCalls.judge = last.callsBefore

\* C12's case: an artifact exists and holds only whitespace, and the oracle
\* would have answered YES.
C12_Witness ==
    /\ Judged
    /\ Readable
    /\ BlankCorpus
    /\ \E i \in 1..Len(ArtifactFiles) : files[ArtifactFiles[i]] = <<" ", "\n">>
    /\ last.raw = <<"Y", "E", "S">>
    /\ last.value = FALSE

\* C13: with a corpus that is not blank, check_implementation returns True if
\* and only if the answer chatgpt_generate hands back is "YES" up to the case
\* of its letters; every other answer and every failure of the oracle gives
\* False; and no call of check_implementation raises.
C13_ExactYes ==
    Judged =>
        /\ last.raises = FALSE
        /\ (Readable /\ ~BlankCorpus) =>
               (last.value <=> (/\ last.raw # TransportError
                                /\ chatgpt_generate(last.raw) \in YesTexts))

\* C13's case: the corpus is not blank and the oracle answered yes in mixed
\* case: True was returned.
C13_Witness ==
    /\ Judged
    /\ Readable
    /\ ~BlankCorpus
    /\ last.raw = <<"Y", "e", "s">>
    /\ last.value = TRUE

(***************************************************************************)
(* Synthesizer: the JSON text of the oracle and json.loads.  A JSON text   *)
(* is a sequence of tokens: brackets, and one token per member.            *)
(***************************************************************************)
Missing == <<"<missing>">>     \* a key the dict does not have

Members == {"html:a", "html:x", "css:a", "css:x", "js:a", "js:x",
            "description:d"}

MemberKey(m) ==
    CASE m \in {"html:a", "html:x"} -> "html"
      [] m \in {"css:a", "css:x"} -> "css"
      [] m \in {"js:a", "js:x"} -> "js"
      [] OTHER -> "description"

MemberValue(m) ==
    CASE m \in {"html:a", "css:a", "js:a"} -> <<"a">>
      [] m \in {"html:x", "css:x", "js:x"} -> <<"x">>
      [] OTHER -> <<"d">>

Keys == {"html", "css", "js", "description"}

\* json.loads(response): a dict, a list, or JSONDecodeError.  The text is
\* parsed as it is: nothing is removed from it first.
json_loads(text) ==
    IF text = <<"[", "]">> THEN [kind |-> "list"]
    ELSE IF /\ Len(text) >= 2
            /\ text[1] = "{"
            /\ text[Len(text)] = "}"
            /\ \A i \in 2..(Len(text) - 1) : text[i] \in Members
    THEN [kind |-> "dict",
          dict |-> [key \in Keys |->
                      IF \E i \in 2..(Len(text) - 1) : MemberKey(text[i]) = key
                      THEN MemberValue(text[CHOOSE i \in 2..(Len(text) - 1) :
                               /\ MemberKey(text[i]) = key
                               /\ \A j \in (i + 1)..(Len(text) - 1) :
                                      MemberKey(text[j]) # key])
                      ELSE Missing]]
    ELSE [kind |-> "JSONDecodeError"]

\* dict.get(key): None when the key is missing
Get(d, key) == IF d[key] = Missing THEN None ELSE d[key]

\* dict.get(key, default)
GetOr(d, key, default) == IF d[key] = Missing THEN default ELSE d[key]

(***************************************************************************)
(* ArtifactStore: _update_readme.                                          *)
(***************************************************************************)
ReadmeHeader == <<"# Auto-Generated Project", "\n", "\n",
                  "## Implemented Features", "\n", "\n">>

\* a faulty variant of _update_readme: the entry is appended without being
\* looked for in the content
_update_readme_unguarded(doc, requirement, description) ==
    LET content == IF doc = Absent THEN ReadmeHeader ELSE doc
        sectioned == IF ~Contains(<<"## Implemented Features">>, content)
                     THEN content \o <<"\n", "## Implemented Features", "\n", "\n">>
                     ELSE content
    IN sectioned \o <<"### ">> \o requirement \o <<"\n">> \o description
           \o <<"\n", "\n">>

\* _update_readme(requirement, description): the README.md it leaves behind
_update_readme(doc, requirement, description) ==
    LET content == IF doc = Absent THEN ReadmeHeader ELSE doc
        sectioned == IF ~Contains(<<"## Implemented Features">>, content)
                     THEN content \o <<"\n", "## Implemented Features", "\n", "\n">>
                     ELSE content
        feature_entry == <<"### ">> \o requirement \o <<"\n">> \o description
                             \o <<"\n", "\n">>
    IN IF ~Contains(feature_entry, sectioned)
       THEN sectioned \o feature_entry
       ELSE doc

(***************************************************************************)
(* ReadmeSpec: _update_readme called directly, twice in a row, with any    *)
(* two pairs, on a README.md that is absent or present.                    *)
(***************************************************************************)
ReadmeRequirements == {<<"A">>, <<"A", "\n", "-", "c">>, <<"B">>}
ReadmeDescriptions == {<<>>, <<"d">>, <<"d", "\n", "e">>}

InitialReadmes ==
    {Absent, <<>>, <<"n", "\n">>, ReadmeHeader,
     ReadmeHeader \o <<"### ", "A", "\n", "d", "\n", "\n">>,
     ReadmeHeader \o <<"### ", "B", "\n", "\n", "\n">>,
     <<"n", "\n", "### ", "A", "\n", "d", "\n", "\n">>,
     ReadmeHeader \o <<"### ", "A", "\n", "d", "\n", "e", "\n", "\n",
                       "### ", "A", "\n", "-", "c", "\n", "d", "\n", "\n">>}

ReadmeInit ==
    /\ pc = "readme"
    /\ readme \in InitialReadmes
    /\ files = EmptyTree
    /\ backups = EmptyTree
    /\ fixlog = <<>>
    /\ oracleCalls = NoCalls
    /\ last = [op |-> "none", n |-> 0]
    /\ reqSource = NoSource
    /\ requirements = <<>>
    /\ idx = 0
    /\ impl = None
    /\ k = 0
    /\ sweepT = 0
    /\ swept = {}
    /\ raised = "none"
    /\ checked = <<>>
    /\ cycles = <<>>
    /\ runNo = 0
    /\ merges = {}
    /\ journal = <<>>

readmeFrame == <<pc, files, backups, fixlog, oracleCalls, reqSource,
                 requirements, idx, impl, k, sweepT, swept, raised, checked,
                 cycles, runNo, merges, journal>>

\* _update_readme(requirement, description)
ReadmeFirst ==
    /\ pc = "readme"
    /\ last.n = 0
    /\ \E requirement \in ReadmeRequirements, description \in ReadmeDescriptions :
           /\ readme' = _update_readme(readme, requirement, description)
           /\ last' = [op |-> "_update_readme", n |-> 1,
                       requirement |-> requirement, description |-> description,
                       before |-> readme, initial |-> readme]
    /\ UNCHANGED readmeFrame

\* a second _update_readme, right after the first
ReadmeAgain ==
    /\ pc = "readme"
    /\ last.n = 1
    /\ \E requirement \in ReadmeRequirements, description \in ReadmeDescriptions :
           /\ readme' = _update_readme(readme, requirement, description)
           /\ last' = [op |-> "_update_readme", n |-> 2,
                       requirement |-> requirement, description |-> description,
                       before |-> readme, initial |-> last.initial,
                       firstRequirement |-> last.requirement,
                       firstDescription |-> last.description]
    /\ UNCHANGED readmeFrame

ReadmeNext == ReadmeFirst \/ ReadmeAgain

ReadmeSpec == ReadmeInit /\ [][ReadmeNext]_vars

\* how many times the text p occurs in the text s
Occurrences(p, s) ==
    Cardinality({i \in 1..(Len(s) - Len(p) + 1) : SubSeq(s, i, i + Len(p) - 1) = p})

\* the changelog block of a pair
Block(requirement, description) ==
    <<"### ">> \o requirement \o <<"\n">> \o description \o <<"\n", "\n">>

SamePairTwice ==
    /\ last.op = "_update_readme"
    /\ last.n = 2
    /\ last.requirement = last.firstRequirement
    /\ last.description = last.firstDescription

\* C14: changelog dedup: after the identical (requirement, description) pair
\* has been appended twice in a row, to a README.md that was absent or was
\* present (holding the pair's block once or not at all), the README.md holds
\* exactly one block for that pair, and the second append changed nothing.
C14_ChangelogDedup ==
    SamePairTwice =>
        /\ Occurrences(Block(last.requirement, last.description), readme) = 1
        /\ readme = last.before

\* C14's case: the pair was appended twice to a README.md that was absent,
\* and the first append wrote its block.
C14_Witness ==
    /\ SamePairTwice
    /\ last.initial = Absent
    /\ last.description # <<>>
    /\ readme = ReadmeHeader \o Block(last.requirement, last.description)

(***************************************************************************)
(* check_and_fix_file and log_fix.                                         *)
(***************************************************************************)
\* the attributes a ProjectManager has: what __init__ and setup_logging
\* assign, and the methods of the class
InstanceAttributes ==
    {"openai_api_key", "project_root", "requirements_file", "logger",
     "html_parser", "read_requirements", "setup_logging", "chatgpt_generate",
     "check_implementation", "_update_file", "_update_readme",
     "check_html_errors", "check_css_errors", "check_js_errors",
     "fix_code_error", "log_fix", "check_and_fix_file",
     "implement_requirement", "run"}

\* the language check_and_fix_file names for a suffix; None: not an artifact
LanguageOf(file_type) ==
    CASE file_type = ".html" -> "HTML"
      [] file_type = ".css" -> "CSS"
      [] file_type = ".js" -> "JavaScript"
      [] OTHER -> "none"

\* log_fix(file_path, error, original_content, fixed_content): one record
\* appended to the fix log
log_fix(log, file_path, error, original_content, fixed_content) ==
    Append(log, [file |-> file_path, error |-> error,
                 original |-> original_content, fixed |-> fixed_content])

\* check_and_fix_file(file_path), given whether the attribute line 273 reads
\* exists and what the API call does: the tree, backups and fix log it leaves,
\* the calls of chatgpt_generate made, the diagnostic found, and the exception
\* that leaves the method ("none": it returned)
CheckAndFix(has_logging, tree, bk, log, file_path, raw) ==
    LET content == tree[file_path]
        language == LanguageOf(Suffix(file_path))
        error == check_errors(content)
        same == [files |-> tree, backups |-> bk, fixlog |-> log, calls |-> 0]
    IN IF content \in {Absent, Unreadable}
       THEN same @@ [error |-> None, exc |-> "OSError"]
       ELSE IF language = "none"
       THEN same @@ [error |-> None, exc |-> "none"]
       ELSE IF error = None
       THEN same @@ [error |-> None, exc |-> "none"]
       ELSE IF ~has_logging
       THEN same @@ [error |-> error, exc |-> "AttributeError"]
       ELSE LET fix == fix_code_error(content, error, language, raw)
                fixed_code == fix.value
                afterBackup == [bk EXCEPT ![file_path] = content]
                afterWrite == [tree EXCEPT ![file_path] = fixed_code]
            IN IF Truthy(fixed_code)
               THEN [files |-> afterWrite, backups |-> afterBackup,
                     fixlog |-> log_fix(log, file_path, error, content, fixed_code),
                     calls |-> fix.calls, error |-> error, exc |-> "none"]
               ELSE [files |-> tree, backups |-> bk, fixlog |-> log,
                     calls |-> fix.calls, error |-> error, exc |-> "none"]

\* the variant of check_and_fix_file whose warning goes to self.logger
check_and_fix_file_logger(tree, bk, log, file_path, raw) ==
    CheckAndFix(TRUE, tree, bk, log, file_path, raw)

\* a faulty variant of check_and_fix_file: the backup is written as soon as
\* the file has been read
check_and_fix_file_eager(tree, bk, log, file_path, raw) ==
    LET r == CheckAndFix("logging" \in InstanceAttributes, tree, bk, log,
                         file_path, raw)
    IN IF tree[file_path] \in {Absent, Unreadable} THEN r
       ELSE [r EXCEPT !.backups = [bk EXCEPT ![file_path] = tree[file_path]]]

\* check_and_fix_file(file_path): line 273 reads self.logging
check_and_fix_file(tree, bk, log, file_path, raw) ==
    CheckAndFix("logging" \in InstanceAttributes, tree, bk, log, file_path, raw)

(***************************************************************************)
(* Spec: run().                                                            *)
(***************************************************************************)
Lines == {<<"A">>, <<" ", "B", "\n">>, <<"-", "c">>}
ReqSources == {NoSource} \cup SeqsUpTo(Lines, MaxLines)

InitTrees ==
    {EmptyTree} \cup
    {[EmptyTree EXCEPT ![f] = c] :
         f \in TreeFiles, c \in {<<"a">>, <<"x">>, Unreadable}}

JudgeReplies == {TransportError, <<"Y", "E", "S">>, <<" ", "y", "e", "s", "\n">>,
                 <<"N", "O">>, <<"Y", "E", "S", "!">>}

\* the JSON text of an object with the given members
Json(members) == <<"{">> \o members \o <<"}">>
\* the text between the two marker lines of a fenced code block; the tokens
\* "<fence>json" and "<fence>" are the three-backquote marker lines
Fenced(text) == <<"<fence>json", "\n">> \o text \o <<"\n", "<fence>">>

SynthReplies ==
    {TransportError,
     <<>>,
     <<"s", "o", "r", "r", "y">>,
     <<"[", "]">>,
     Json(<<"html:a", "css:a", "js:a", "description:d">>),
     <<" ">> \o Json(<<"html:a", "description:d">>) \o <<"\n">>,
     Fenced(Json(<<"html:a", "css:a", "js:a", "description:d">>)),
     Json(<<"description:d">>),
     Json(<<"css:a">>),
     Json(<<"html:x", "css:a", "description:d">>),
     Json(<<"css:x", "js:a", "description:d">>),
     Json(<<"js:x", "description:d">>)}

\* what the API call may do when asked for a correction
CycleReplies == {TransportError, <<"a">>, <<"x">>}

SweepTypes == <<".html", ".css", ".js">>

Init ==
    /\ pc = "start"
    /\ reqSource \in ReqSources
    /\ files \in InitTrees
    /\ backups = EmptyTree
    /\ readme = Absent
    /\ fixlog = <<>>
    /\ oracleCalls = NoCalls
    /\ requirements = <<>>
    /\ idx = 0
    /\ impl = None
    /\ k = 0
    /\ sweepT = 0
    /\ swept = {}
    /\ raised = "none"
    /\ checked = <<>>
    /\ cycles = <<>>
    /\ last = [op |-> "none", n |-> 0]
    /\ runNo = 1
    /\ merges = {}
    /\ journal = <<>>

\* a faulty variant of run_except: a handler for OSError alone
run_except_narrow(exc) == IF exc = "OSError" THEN "done" ELSE "uncaught"

\* lines 355-357: where run() is once an exception has ended its try block:
\* the handler catches every Exception, logs it, and run() returns
run_except(exc) == "done"

\* a faulty variant of RunStart: run() without the early exit; reading a file
\* that does not exist gives the empty list (line 52)
RunStart_noexit ==
    /\ pc = "start"
    /\ requirements' = IF reqSource = NoSource THEN <<>>
                       ELSE read_requirements(reqSource)
    /\ idx' = 1
    /\ pc' = "loop"
    /\ UNCHANGED <<reqSource, files, backups, readme, fixlog, oracleCalls, impl,
                   k, sweepT, swept, raised, checked, cycles, last, runNo, merges,
                   journal>>

\* lines 335-341: the early exit, or the requirements are read
RunStart ==
    /\ pc = "start"
    /\ IF reqSource = NoSource
       THEN /\ pc' = "done"
            /\ UNCHANGED <<requirements, idx>>
       ELSE /\ requirements' = read_requirements(reqSource)
            /\ idx' = 1
            /\ pc' = "loop"
    /\ UNCHANGED <<reqSource, files, backups, readme, fixlog, oracleCalls, impl,
                   k, sweepT, swept, raised, checked, cycles, last, runNo, merges,
                   journal>>

\* a faulty variant of NeedsImplementing: every requirement is implemented
NeedsImplementing_always(satisfied) == TRUE

\* line 344: whether run() calls implement_requirement, given what
\* check_implementation returned
NeedsImplementing(satisfied) == ~satisfied

\* lines 342-348: the satisfaction check of the next requirement
CheckImplementation ==
    /\ pc = "loop"
    /\ idx <= Len(requirements)
    /\ \E raw \in JudgeReplies :
           LET r == check_implementation(files, requirements[idx], raw)
           IN /\ oracleCalls' = [oracleCalls EXCEPT !.judge = @ + r.calls]
              /\ journal' = Append(journal,
                                [kind |-> "judge", idx |-> idx,
                                 value |-> r.value, raw |-> None])
              /\ IF NeedsImplementing(r.value)
                 THEN /\ idx' = idx
                      /\ pc' = "implement"
                 ELSE /\ idx' = idx + 1
                      /\ pc' = "loop"
    /\ checked' = Append(checked, requirements[idx])
    /\ UNCHANGED <<reqSource, requirements, files, backups, readme, fixlog, impl,
                   k, sweepT, swept, raised, cycles, last, runNo, merges>>

\* lines 308-319: the oracle is asked for an implementation, which is parsed
\* and merged; an exception other than JSONDecodeError leaves
\* implement_requirement and ends the try block of run() at line 355
ImplementRequirement ==
    /\ pc = "implement"
    /\ \E raw \in SynthReplies :
           LET response == chatgpt_generate(raw)
               implementation == json_loads(response)
               requirement == requirements[idx]
           IN /\ oracleCalls' = [oracleCalls EXCEPT !.synth = @ + 1]
              /\ journal' = Append(journal,
                                [kind |-> "synth", idx |-> idx,
                                 value |-> FALSE, raw |-> raw])
              /\ IF ~Truthy(response) \/ implementation.kind = "JSONDecodeError"
                 THEN /\ idx' = idx + 1
                      /\ pc' = "loop"
                      /\ UNCHANGED <<files, readme, impl, k, raised, merges>>
                 ELSE IF implementation.kind # "dict"
                 THEN /\ pc' = run_except("AttributeError")
                      /\ raised' = "AttributeError"
                      /\ UNCHANGED <<files, readme, impl, k, idx, merges>>
                 ELSE LET d == implementation.dict
                          t1 == IF Truthy(Get(d, "html"))
                                THEN _update_file(files, "index.html", d["html"])
                                ELSE files
                          t2 == IF Truthy(Get(d, "css"))
                                THEN _update_file(t1, "styles.css", d["css"])
                                ELSE t1
                          t3 == IF Truthy(Get(d, "js"))
                                THEN _update_file(t2, "script.js", d["js"])
                                ELSE t2
                          call(key, f, before, after) ==
                              IF Truthy(Get(d, key))
                              THEN {[run |-> runNo, idx |-> idx, file |-> f,
                                     content |-> d[key],
                                     grew |-> ContentOf(after, f) # ContentOf(before, f)]}
                              ELSE {}
                      IN /\ files' = t3
                         /\ merges' = merges
                                \cup call("html", "index.html", files, t1)
                                \cup call("css", "styles.css", t1, t2)
                                \cup call("js", "script.js", t2, t3)
                         /\ readme' = _update_readme(readme, requirement,
                                          GetOr(d, "description", <<>>))
                         /\ impl' = d
                         /\ k' = 1
                         /\ pc' = "reqcheck"
                         /\ UNCHANGED <<idx, raised>>
    /\ UNCHANGED <<reqSource, requirements, backups, fixlog, sweepT, swept,
                   checked, cycles, last, runNo>>

\* one call of check_and_fix_file, from the loop of implement_requirement
\* ("requirement") or from the sweep of run() ("sweep"), and the record of it
CheckCycle(f, ctx, raw) ==
    LET r == check_and_fix_file(files, backups, fixlog, f, raw)
    IN /\ files' = r.files
       /\ backups' = r.backups
       /\ fixlog' = r.fixlog
       /\ oracleCalls' = [oracleCalls EXCEPT !.fix = @ + r.calls]
       /\ cycles' = Append(cycles,
              [file |-> f, ctx |-> ctx, before |-> files[f], error |-> r.error,
               raw |-> raw, calls |-> r.calls, exc |-> r.exc,
               after |-> r.files[f], backupBefore |-> backups[f],
               backupAfter |-> r.backups[f],
               logged |-> Len(r.fixlog) - Len(fixlog)])
       /\ raised' = r.exc

\* the answers the oracle may have for a cycle's correction prompt
RepliesFor(f) ==
    IF check_errors(files[f]) # None /\ files[f] # Unreadable
    THEN CycleReplies ELSE {None}

\* lines 322-324: a file of the list that does not exist is passed over
ReqSkipFile ==
    /\ pc = "reqcheck"
    /\ k <= Len(ArtifactFiles)
    /\ ~Exists(files, ArtifactFiles[k])
    /\ k' = k + 1
    /\ UNCHANGED <<pc, reqSource, requirements, idx, files, backups, readme,
                   fixlog, oracleCalls, impl, sweepT, swept, raised, checked,
                   cycles, last, runNo, merges,
                   journal>>

\* lines 322-325: the check cycle of the next file of the list
ReqCheckFile ==
    /\ pc = "reqcheck"
    /\ k <= Len(ArtifactFiles)
    /\ Exists(files, ArtifactFiles[k])
    /\ \E raw \in RepliesFor(ArtifactFiles[k]) :
           CheckCycle(ArtifactFiles[k], "requirement", raw)
    /\ IF raised' = "none"
       THEN k' = k + 1 /\ pc' = pc
       ELSE k' = k /\ pc' = run_except(raised')
    /\ UNCHANGED <<reqSource, requirements, idx, readme, impl, sweepT, swept,
                   checked, last, runNo, merges,
                   journal>>

\* lines 327-328: the second README update, which reads the key itself
ReqFinish ==
    /\ pc = "reqcheck"
    /\ k > Len(ArtifactFiles)
    /\ IF impl["description"] = Missing
       THEN /\ pc' = run_except("KeyError")
            /\ raised' = "KeyError"
            /\ UNCHANGED <<readme, idx>>
       ELSE /\ readme' = _update_readme(readme, requirements[idx],
                                        impl["description"])
            /\ idx' = idx + 1
            /\ pc' = "loop"
            /\ UNCHANGED raised
    /\ UNCHANGED <<reqSource, requirements, files, backups, fixlog, oracleCalls,
                   impl, k, sweepT, swept, checked, cycles, last, runNo, merges,
                   journal>>

\* line 342: the list is exhausted; line 351: the sweep starts
LoopEnd ==
    /\ pc = "loop"
    /\ idx > Len(requirements)
    /\ pc' = "sweep"
    /\ sweepT' = 1
    /\ UNCHANGED <<reqSource, requirements, idx, files, backups, readme, fixlog,
                   oracleCalls, impl, k, swept, raised, checked, cycles, last, runNo, merges,
                   journal>>

\* the files rglob has yet to yield for the suffix the sweep is on
ToSweep ==
    {f \in TreeFiles \ swept :
         Exists(files, f) /\ Suffix(f) = SweepTypes[sweepT]}

\* lines 352-353: the check cycle of the next file rglob yields
SweepFile ==
    /\ pc = "sweep"
    /\ \E f \in ToSweep :
           /\ \E raw \in RepliesFor(f) : CheckCycle(f, "sweep", raw)
           /\ swept' = swept \cup {f}
    /\ pc' = IF raised' = "none" THEN pc ELSE run_except(raised')
    /\ UNCHANGED <<reqSource, requirements, idx, readme, impl, k, sweepT,
                   checked, last, runNo, merges,
                   journal>>

\* line 351: the next suffix, or the end of the sweep
SweepNextType ==
    /\ pc = "sweep"
    /\ ToSweep = {}
    /\ IF sweepT < Len(SweepTypes)
       THEN sweepT' = sweepT + 1 /\ pc' = pc
       ELSE sweepT' = sweepT /\ pc' = "done"
    /\ UNCHANGED <<reqSource, requirements, idx, files, backups, readme, fixlog,
                   oracleCalls, impl, k, swept, raised, checked, cycles, last, runNo, merges,
                   journal>>

Next ==
    \/ RunStart
    \/ CheckImplementation
    \/ ImplementRequirement
    \/ ReqSkipFile
    \/ ReqCheckFile
    \/ ReqFinish
    \/ LoopEnd
    \/ SweepFile
    \/ SweepNextType

Spec == Init /\ [][Next]_vars

(***************************************************************************)
(* Properties of run().                                                    *)
(***************************************************************************)
Done == pc = "done"
SourcePresent == reqSource # NoSource

\* a recorded check cycle whose validator reported a diagnostic
Diagnosed(c) == c.error # None

\* what fix_code_error returns for a recorded cycle's content, diagnostic and
\* kind when the oracle gives the answer it had for that cycle
RepairOf(c) ==
    fix_code_error(c.before, c.error, LanguageOf(Suffix(c.file)), c.raw).value

CyclesOf(f) == {i \in DOMAIN cycles : cycles[i].file = f}

\* C1: whatever fails while one requirement is processed, run() still hands
\* every requirement of the source to the satisfaction check, in source order,
\* before it finishes.
C1_EveryRequirementChecked ==
    (Done /\ SourcePresent) => checked = read_requirements(reqSource)

\* C4: backup before overwrite: a check cycle on an artifact with a diagnostic
\* for which the oracle's correction passes the validator ends with the backup
\* holding the pre-repair content and the live file holding the corrected,
\* valid text.
C4_BackupBeforeOverwrite ==
    \A i \in DOMAIN cycles :
        (Diagnosed(cycles[i]) /\ RepairOf(cycles[i]) # None) =>
            /\ cycles[i].backupAfter = cycles[i].before
            /\ cycles[i].after = RepairOf(cycles[i])
            /\ check_errors(cycles[i].after) = None

\* C5: a check cycle whose validator reports a diagnostic makes exactly one
\* repair attempt, one corrective oracle call, and reaches DONE: it returns.
C5_DiagnosticMakesOneAttempt ==
    \A i \in DOMAIN cycles :
        Diagnosed(cycles[i]) => cycles[i].calls = 1 /\ cycles[i].exc = "none"

\* C6: a failed repair (the oracle fails or answers nothing, or its text still
\* fails validation) leaves the live file unchanged, writes no backup, and
\* raises nothing to the caller of the cycle.
C6_FailedRepairChangesNothing ==
    \A i \in DOMAIN cycles :
        (Diagnosed(cycles[i]) /\ RepairOf(cycles[i]) = None) =>
            /\ cycles[i].after = cycles[i].before
            /\ cycles[i].backupAfter = cycles[i].backupBefore
            /\ cycles[i].exc = "none"

\* C7: every repair attempt, successful or not, appends exactly one FixRecord:
\* each cycle that found a diagnostic appended one record, and the fix log holds
\* as many records as there were such cycles.
C7_OneFixRecordPerAttempt ==
    /\ \A i \in DOMAIN cycles : Diagnosed(cycles[i]) => cycles[i].logged = 1
    /\ Len(fixlog) = Cardinality({i \in DOMAIN cycles : Diagnosed(cycles[i])})

C10_SweepChecksEveryArtifact ==
    (Done /\ SourcePresent) =>
        \A f \in TreeFiles :
            Exists(files, f) =>
                \E i \in CyclesOf(f) : cycles[i].ctx = "sweep"

(***************************************************************************)
(* RerunSpec: the script run again and again on the tree, README, backups  *)
(* and fix log the run before left, with the requirements file unchanged.  *)
(* Each invocation is a new process (lines 360-363): a new ProjectManager. *)
(***************************************************************************)
RunAgain ==
    /\ pc = "done"
    /\ runNo < MaxRuns
    /\ pc' = "start"
    /\ runNo' = runNo + 1
    /\ requirements' = <<>>
    /\ idx' = 0
    /\ impl' = None
    /\ k' = 0
    /\ sweepT' = 0
    /\ swept' = {}
    /\ raised' = "none"
    /\ checked' = <<>>
    /\ cycles' = <<>>
    /\ oracleCalls' = NoCalls
    /\ journal' = <<>>
    /\ UNCHANGED <<reqSource, files, backups, readme, fixlog, last, merges>>

\* the requirements files the reruns are explored on
RerunSources == {<<<<"A">>, <<"-", "c">>>>, <<<<"A">>, <<" ", "B", "\n">>>>}

\* the project trees the first run starts on
RerunTrees == {EmptyTree,
               [EmptyTree EXCEPT !["styles.css"] = <<"a">>],
               [EmptyTree EXCEPT !["lib/extra.js"] = <<"x">>]}

RerunInit ==
    /\ Init
    /\ reqSource \in RerunSources
    /\ files \in RerunTrees
    /\ Len(reqSource) > 1 /\ reqSource[2] # <<"-", "c">> => files = EmptyTree

RerunNext == Next \/ RunAgain

RerunSpec == RerunInit /\ [][RerunNext]_vars

\* C11: re-running the pipeline on an unchanged requirement set does not grow
\* the artifacts: whatever the oracle answers, and so also when it answers the
\* same proposals, a fragment that an earlier run appended to an artifact is
\* not appended to that artifact by a merge of a later run.
C11_NoRegrowth ==
    \A e1, e2 \in merges :
        (/\ e1.run < e2.run
         /\ e1.file = e2.file
         /\ e1.content = e2.content
         /\ e1.grew) => ~e2.grew

\* C11's case: a later run merged, into the same artifact, the fragment an
\* earlier run had appended to it, and the artifact did not grow.
C11_Witness ==
    \E e1, e2 \in merges :
        /\ e1.run < e2.run
        /\ e1.file = e2.file
        /\ e1.content = e2.content
        /\ e1.grew
        /\ ~e2.grew
        /\ Contains(<<"\n">> \o e1.content, files[e1.file])

(***************************************************************************)
(* Properties of run(): the early exit.                                    *)
(***************************************************************************)
\* C15: when project_requirements.txt does not exist, run() exits at once:
\* it has made no oracle call and run no check cycle, it never gets to the
\* loop or to the sweep, and no step of it changes an artifact, a backup, the
\* README.md or the fix log, whatever the tree holds.
C15_AbsentSourceDoesNothing ==
    /\ [](reqSource = NoSource =>
             /\ oracleCalls = NoCalls
             /\ cycles = <<>>
             /\ swept = {}
             /\ pc \in {"start", "done"})
    /\ [][reqSource = NoSource =>
             /\ files' = files
             /\ backups' = backups
             /\ readme' = readme
             /\ fixlog' = fixlog]_vars

\* C15's case: run() has returned, there was no requirements file, and an
\* artifact of the tree is one the validator rejects.
C15_Witness ==
    /\ Done
    /\ reqSource = NoSource
    /\ \E f \in TreeFiles : Exists(files, f) /\ check_errors(files[f]) = ParseError
    /\ cycles = <<>>
    /\ oracleCalls = NoCalls

(***************************************************************************)
(* Properties of run(): the synthesis of a requirement.                    *)
(***************************************************************************)
Latest(s) == s[Len(s)]

\* the synthesis answers recorded for this run
SynthAnswers == {i \in DOMAIN journal : journal[i].kind = "synth"}

\* a text that reads as one JSON object
IsRecordText(text) ==
    /\ Len(text) >= 2
    /\ text[1] = "{"
    /\ text[Len(text)] = "}"
    /\ \A i \in 2..(Len(text) - 1) : text[i] \in Members

\* a text wrapped in the two marker lines of a fenced code block
IsFenced(text) ==
    /\ Len(text) >= 4
    /\ text[1] = "<fence>json"
    /\ text[2] = "\n"
    /\ text[Len(text) - 1] = "\n"
    /\ text[Len(text)] = "<fence>"

\* what the two marker lines wrap
Payload(text) == SubSeq(text, 3, Len(text) - 2)

ArtifactOf(key) ==
    CASE key = "html" -> "index.html"
      [] key = "css" -> "styles.css"
      [] key = "js" -> "script.js"

\* C16: a well-formed proposal that the oracle wrapped in the marker lines of
\* a fenced code block is accepted: every fragment of the wrapped proposal is
\* handed to the merge of its artifact, as it is for the proposal unwrapped.
C16_FencedProposalAccepted ==
    \A i \in SynthAnswers :
        LET text == strip(journal[i].raw)
        IN (/\ journal[i].raw # TransportError
            /\ IsFenced(text)
            /\ IsRecordText(Payload(text)))
           => \A key \in {"html", "css", "js"} :
                  LET d == json_loads(Payload(text)).dict
                  IN Truthy(Get(d, key)) =>
                         \E m \in merges :
                             /\ m.run = runNo
                             /\ m.idx = journal[i].idx
                             /\ m.file = ArtifactOf(key)
                             /\ m.content = d[key]

\* the oracle answered nothing, or a text that is not a proposal record,
\* wrapped or not
SynthFailed(raw) ==
    \/ raw = TransportError
    \/ strip(raw) = <<>>
    \/ /\ ~IsRecordText(strip(raw))
       /\ ~(IsFenced(strip(raw)) /\ IsRecordText(Payload(strip(raw))))

\* C17: when the synthesis of a requirement fails (the oracle answers
\* nothing, or a text that is not a proposal record), that step creates and
\* changes no artifact, appends nothing to the README.md, and does not enter
\* the check loop of the requirement: the answer is not taken for an empty
\* proposal.
C17_FailedSynthesisSkips ==
    [][(/\ journal' # journal
        /\ Latest(journal').kind = "synth"
        /\ SynthFailed(Latest(journal').raw)) =>
           /\ files' = files
           /\ backups' = backups
           /\ readme' = readme
           /\ fixlog' = fixlog
           /\ merges' = merges
           /\ cycles' = cycles
           /\ pc' # "reqcheck"
           /\ pc' = "loop" => idx' = idx + 1]_vars

\* C17's case: the oracle was down for one requirement and answered prose
\* for another; run() went on and nothing was written.
C17_Witness ==
    /\ \E i \in SynthAnswers : journal[i].raw = TransportError
    /\ \E i \in SynthAnswers : journal[i].raw = <<"s", "o", "r", "r", "y">>
    /\ pc = "sweep"
    /\ readme = Absent
    /\ merges = {}

\* C18: no failure leaves run(): whatever the requirements, the tree and the
\* oracle do, run() is at a statement of its own, and when it has not
\* returned it has a next step to take.
C18_RunReturns ==
    /\ pc \in {"start", "loop", "implement", "reqcheck", "sweep", "done"}
    /\ ~Done => ENABLED Next

\* C18's case: the oracle was down for one requirement, an exception ended
\* the processing of another, and run() has returned.
C18_Witness ==
    /\ Done
    /\ raised = "KeyError"
    /\ \E i \in SynthAnswers : journal[i].raw = TransportError

\* C19: a requirement check_implementation judges satisfied is skipped: the
\* step that judges it makes no synthesis call, changes no artifact and no
\* README.md, and moves on to the next requirement; and every synthesis call
\* is made for the requirement that was just judged unsatisfied.
C19_SatisfiedIsSkipped ==
    [][/\ (/\ journal' # journal
           /\ Latest(journal').kind = "judge"
           /\ Latest(journal').value) =>
              /\ oracleCalls'.synth = oracleCalls.synth
              /\ files' = files
              /\ readme' = readme
              /\ merges' = merges
              /\ pc' = "loop"
              /\ idx' = idx + 1
       /\ oracleCalls'.synth # oracleCalls.synth =>
              /\ journal # <<>>
              /\ Latest(journal).kind = "judge"
              /\ ~Latest(journal).value
              /\ Latest(journal).idx = idx]_vars

\* C19's case: run() has returned after judging every requirement of a
\* two-requirement file satisfied; no synthesis call was made and nothing was
\* written.
C19_Witness ==
    /\ Done
    /\ Len(journal) = 2
    /\ \A i \in DOMAIN journal : journal[i].kind = "judge" /\ journal[i].value
    /\ oracleCalls.synth = 0
    /\ readme = Absent
    /\ merges = {}

(***************************************************************************)
(* CycleSpec: check_and_fix_file called directly on a file of a tree that  *)
(* also holds a file that is none of the three kinds.                      *)
(***************************************************************************)
MaxCycleCalls == 2    \* direct check_and_fix_file calls in one behaviour

CycleFiles == TreeFiles \cup {"notes.txt"}
CycleContents == {<<"a">>, <<"x">>}

CycleInit ==
    /\ pc = "cycle"
    /\ files \in [CycleFiles -> CycleContents]
    /\ backups = [f \in CycleFiles |-> Absent]
    /\ fixlog = <<>>
    /\ oracleCalls = NoCalls
    /\ last = [op |-> "none", n |-> 0]
    /\ RunIdle

CycleCall ==
    /\ pc = "cycle"
    /\ last.n < MaxCycleCalls
    /\ \E f \in CycleFiles :
           /\ \E raw \in RepliesFor(f) : CheckCycle(f, "direct", raw)
           /\ last' = [op |-> "check_and_fix_file", n |-> last.n + 1,
                       file |-> f, treeBefore |-> files,
                       backupsBefore |-> backups, logBefore |-> fixlog,
                       callsBefore |-> oracleCalls]
    /\ UNCHANGED <<pc, reqSource, requirements, idx, readme, impl, k, sweepT,
                   swept, checked, runNo, merges, journal>>

CycleNext == CycleCall

CycleSpec == CycleInit /\ [][CycleNext]_vars

CycleMade == last.op = "check_and_fix_file"

\* the file of the last cycle is of one of the three kinds
OfArtifactKind == Suffix(last.file) \in {".html", ".css", ".js"}

\* C20: a check cycle on an artifact the validator reports valid returns
\* without an oracle call, without writing the live file or a backup and
\* without a fix record; and so does a cycle on a file that is of none of the
\* three kinds, whatever it holds.
C20_ValidCycleTouchesNothing ==
    (/\ CycleMade
     /\ OfArtifactKind => ~ParserRejects(last.treeBefore[last.file])) =>
        /\ raised = "none"
        /\ oracleCalls = last.callsBefore
        /\ files = last.treeBefore
        /\ backups = last.backupsBefore
        /\ fixlog = last.logBefore
        /\ Latest(cycles).calls = 0
        /\ Latest(cycles).logged = 0

\* C20's case: a cycle on an artifact the parser accepts was followed by a
\* cycle on a file of no kind, which holds a text the parsers would reject.
C20_Witness ==
    /\ CycleMade
    /\ last.n = 2
    /\ ~OfArtifactKind
    /\ ParserRejects(files[last.file])
    /\ Suffix(cycles[1].file) = ".css"
    /\ cycles[1].error = None
    /\ cycles[1].exc = "none"
====
